---- MODULE Spec2Model ----
(***************************************************************************)
(* A model of the United fare scraper of src/preflightplan/united_data.py: *)
(* the search (browser acquisition, fallback HTTP acquisition), the two    *)
(* extraction passes and the parsing of one flight card.                   *)
(*                                                                         *)
(* Text is a sequence of one-character strings, so that the regular        *)
(* expressions of the source are computed character by character.          *)
(***************************************************************************)
EXTENDS Integers, Sequences, FiniteSets, TLC

(***************************************************************************)
(* Characters and the string helpers of Python the source uses.            *)
(***************************************************************************)
Digit == {"0", "1", "2", "3", "4", "5", "6", "7", "8", "9"}

Space == {" ", "\t", "\n", "\r"}

UpperCase == <<"A", "B", "C", "D", "E", "F", "G", "H", "I", "J", "K", "L", "M",
               "N", "O", "P", "Q", "R", "S", "T", "U", "V", "W", "X", "Y", "Z">>

LowerCase == <<"a", "b", "c", "d", "e", "f", "g", "h", "i", "j", "k", "l", "m",
               "n", "o", "p", "q", "r", "s", "t", "u", "v", "w", "x", "y", "z">>

\* str.lower() on one character
LowerChar(c) ==
    IF \E j \in 1..Len(UpperCase) : UpperCase[j] = c
    THEN LowerCase[CHOOSE j \in 1..Len(UpperCase) : UpperCase[j] = c]
    ELSE c

\* str.lower()
Lower(s) == [j \in 1..Len(s) |-> LowerChar(s[j])]

\* the absent value of a field (Python's None); no text equals it
None == <<"None">>

\* None where the source holds a dict or None (a return value, flight_info)
NoneDict == [none |-> TRUE]

IsDigit(s, i) == i >= 1 /\ i <= Len(s) /\ s[i] \in Digit

IsSpace(s, i) == i >= 1 /\ i <= Len(s) /\ s[i] \in Space

\* the literal lit stands in s at position i
LitAt(s, i, lit) ==
    /\ i >= 1
    /\ i + Len(lit) - 1 <= Len(s)
    /\ \A j \in 1..Len(lit) : s[i + j - 1] = lit[j]

\* the same under re.IGNORECASE; lit is given in lower case
LitAtCI(s, i, lit) ==
    /\ i >= 1
    /\ i + Len(lit) - 1 <= Len(s)
    /\ \A j \in 1..Len(lit) : LowerChar(s[i + j - 1]) = lit[j]

\* `lit in s`
Contains(s, lit) == \E i \in 1..(Len(s) + 1) : LitAt(s, i, lit)

\* the position after the longest run of characters of set cs that starts at i
RECURSIVE RunEnd(_, _, _)
RunEnd(s, i, cs) ==
    IF i <= Len(s) /\ s[i] \in cs THEN RunEnd(s, i + 1, cs) ELSE i

\* str.strip()
RECURSIVE LStrip(_)
LStrip(s) == IF s # <<>> /\ Head(s) \in Space THEN LStrip(Tail(s)) ELSE s

RECURSIVE RStrip(_)
RStrip(s) ==
    IF s # <<>> /\ s[Len(s)] \in Space THEN RStrip(SubSeq(s, 1, Len(s) - 1)) ELSE s

Strip(s) == RStrip(LStrip(s))

(***************************************************************************)
(* The regular expressions.  Each XAt(s, i) is the position after the      *)
(* match of pattern X that starts at position i of s, as Python's          *)
(* backtracking matcher finds it, and 0 when X does not match at i.        *)
(***************************************************************************)

\* \d{k}:\d{2} at i, for k digits of hour
TimeCoreAt(s, i, k) ==
    IF /\ \A j \in 0..(k - 1) : IsDigit(s, i + j)
       /\ LitAt(s, i + k, <<":">>)
       /\ IsDigit(s, i + k + 1)
       /\ IsDigit(s, i + k + 2)
    THEN i + k + 3
    ELSE 0

\* r'\d{1,2}:\d{2}' of _parse_html_content
PlainTimeAt(s, i) ==
    IF TimeCoreAt(s, i, 2) # 0 THEN TimeCoreAt(s, i, 2) ELSE TimeCoreAt(s, i, 1)

AmPm == {<<"A", "M">>, <<"P", "M">>, <<"a", "m">>, <<"p", "m">>}

\* a variant without the AM/PM suffix
TimeAtNoSuffix(s, i) == PlainTimeAt(s, i)

\* time_pattern = r'(\d{1,2}:\d{2}\s?(?:AM|PM|am|pm)?)'
TimeAt(s, i) ==
    LET p == PlainTimeAt(s, i)
        q == IF IsSpace(s, p) THEN p + 1 ELSE p
    IN  IF ~IsDigit(s, i) \/ p = 0 THEN 0
        ELSE IF \E m \in AmPm : LitAt(s, q, m) THEN q + 2 ELSE q

\* price_usd_pattern = r'\$[\d,]+(?:\.\d{2})?'
UsdAt(s, i) ==
    LET p == RunEnd(s, i + 1, Digit \cup {","})
    IN  IF ~LitAt(s, i, <<"$">>) \/ p = i + 1 THEN 0
        ELSE IF LitAt(s, p, <<".">>) /\ IsDigit(s, p + 1) /\ IsDigit(s, p + 2)
             THEN p + 3
             ELSE p

\* r'\$\d+' of _parse_html_content
PlainUsdAt(s, i) ==
    LET p == RunEnd(s, i + 1, Digit)
    IN  IF ~LitAt(s, i, <<"$">>) \/ p = i + 1 THEN 0 ELSE p

\* the first alternative of (?:miles|points|pts) that stands at q, ignoring case
MilesWordEnd(s, q) ==
    IF LitAtCI(s, q, <<"m", "i", "l", "e", "s">>) THEN q + 5
    ELSE IF LitAtCI(s, q, <<"p", "o", "i", "n", "t", "s">>) THEN q + 6
    ELSE IF LitAtCI(s, q, <<"p", "t", "s">>) THEN q + 3
    ELSE 0

\* price_miles_pattern = r'[\d,]+\s?(?:miles|points|pts)', re.IGNORECASE
MilesAt(s, i) ==
    LET p == RunEnd(s, i, Digit \cup {","})
        q == IF IsSpace(s, p) THEN p + 1 ELSE p
    IN  IF p = i THEN 0
        ELSE IF MilesWordEnd(s, q) # 0 THEN MilesWordEnd(s, q)
        ELSE MilesWordEnd(s, p)

\* duration_pattern = r'(\d+h\s?\d*m?|\d+:\d+)'
DurationAt(s, i) ==
    LET p == RunEnd(s, i, Digit)
        a == IF IsSpace(s, p + 1) THEN p + 2 ELSE p + 1
        b == RunEnd(s, a, Digit)
        c == IF LitAt(s, b, <<"m">>) THEN b + 1 ELSE b
        d == RunEnd(s, p + 1, Digit)
    IN  IF p = i THEN 0
        ELSE IF LitAt(s, p, <<"h">>) THEN c
        ELSE IF LitAt(s, p, <<":">>) /\ d > p + 1 THEN d
        ELSE 0

\* the position where the digits of flight_num_pattern start, 0 when the
\* carrier word does not stand at i:  (?:UA|United)\s?  under re.IGNORECASE
FlightDigitsAt(s, i) ==
    LET w == IF LitAtCI(s, i, <<"u", "a">>) THEN i + 2
             ELSE IF LitAtCI(s, i, <<"u", "n", "i", "t", "e", "d">>) THEN i + 6
             ELSE 0
        q == IF IsSpace(s, w) THEN w + 1 ELSE w
    IN  IF w = 0 THEN 0
        ELSE IF IsDigit(s, q) THEN q
        ELSE IF IsDigit(s, w) THEN w
        ELSE 0

\* flight_num_pattern = r'(?:UA|United)\s?(\d+)', re.IGNORECASE
FlightNumAt(s, i) ==
    IF FlightDigitsAt(s, i) = 0 THEN 0 ELSE RunEnd(s, FlightDigitsAt(s, i), Digit)

\* r'UA\s?\d+' of _parse_html_content (case sensitive)
PlainFlightAt(s, i) ==
    LET w == i + 2
        q == IF IsSpace(s, w) THEN w + 1 ELSE w
    IN  IF ~LitAt(s, i, <<"U", "A">>) THEN 0
        ELSE IF IsDigit(s, q) THEN RunEnd(s, q, Digit)
        ELSE 0

\* the compiled patterns handed to re.search, by name
MatchAt(pattern, s, i) ==
    CASE pattern = "duration" -> DurationAt(s, i)
      [] pattern = "flight_num" -> FlightNumAt(s, i)
      [] pattern = "usd" -> PlainUsdAt(s, i)
      [] pattern = "time" -> PlainTimeAt(s, i)
      [] pattern = "ua" -> PlainFlightAt(s, i)

\* re.search: the leftmost position where the pattern matches, 0 when there
\* is none
SearchPos(pattern, s) ==
    IF \E i \in 1..Len(s) : MatchAt(pattern, s, i) # 0
    THEN CHOOSE i \in 1..Len(s) :
            /\ MatchAt(pattern, s, i) # 0
            /\ \A j \in 1..(i - 1) : MatchAt(pattern, s, j) = 0
    ELSE 0

\* re.findall(time_pattern, s): the matches from left to right, not overlapping
RECURSIVE FindAllTimes(_, _)
FindAllTimes(s, i) ==
    IF i > Len(s) THEN <<>>
    ELSE LET e == TimeAt(s, i)
         IN  IF e # 0
             THEN <<SubSeq(s, i, e - 1)>> \o FindAllTimes(s, e)
             ELSE FindAllTimes(s, i + 1)

\* re.findall(price_usd_pattern, s)
RECURSIVE FindAllUsd(_, _)
FindAllUsd(s, i) ==
    IF i > Len(s) THEN <<>>
    ELSE LET e == UsdAt(s, i)
         IN  IF e # 0
             THEN <<SubSeq(s, i, e - 1)>> \o FindAllUsd(s, e)
             ELSE FindAllUsd(s, i + 1)

\* re.findall(price_miles_pattern, s, re.IGNORECASE)
RECURSIVE FindAllMiles(_, _)
FindAllMiles(s, i) ==
    IF i > Len(s) THEN <<>>
    ELSE LET e == MilesAt(s, i)
         IN  IF e # 0
             THEN <<SubSeq(s, i, e - 1)>> \o FindAllMiles(s, e)
             ELSE FindAllMiles(s, i + 1)

(***************************************************************************)
(* _parse_flight_card_flexible.  A flight card (a WebElement) is           *)
(*   text     : what element.text returns                                  *)
(*   stale    : element.text raises (the element left the page)            *)
(*   timeEls  : for each of the four time selectors, what find_elements    *)
(*              does inside the card: it raises, or yields the texts els   *)
(*              of the elements found (StaleText for an element whose text *)
(*              cannot be read)                                            *)
(*   priceEls : the same for the four price selectors                      *)
(***************************************************************************)
NoEls == [raises |-> FALSE, els |-> <<>>]

AirlineName == <<"U", "n", "i", "t", "e", "d", " ", "A", "i", "r", "l", "i", "n", "e", "s">>

\* times[0], times[1] when re.findall finds at least two times
TextTimes(text) ==
    LET times == FindAllTimes(text, 1)
    IN  IF Len(times) >= 2 THEN <<times[1], times[2]>> ELSE <<None, None>>

\* a variant that defaults the price to "$0"
TextUsdDefault(text) ==
    LET usd_prices == FindAllUsd(text, 1)
    IN  IF usd_prices # <<>> THEN usd_prices[1] ELSE <<"$", "0">>

\* usd_prices[0] when there is one
TextUsd(text) ==
    LET usd_prices == FindAllUsd(text, 1)
    IN  IF usd_prices # <<>> THEN usd_prices[1] ELSE None

\* miles_prices[0] when there is one
TextMiles(text) ==
    LET miles_prices == FindAllMiles(text, 1)
    IN  IF miles_prices # <<>> THEN miles_prices[1] ELSE None

\* a variant that defaults the duration to "0h"
TextDurationDefault(text) ==
    LET i == SearchPos("duration", text)
    IN  IF i # 0 THEN SubSeq(text, i, DurationAt(text, i) - 1) ELSE <<"0", "h">>

\* duration_match.group(1)
TextDuration(text) ==
    LET i == SearchPos("duration", text)
    IN  IF i # 0 THEN SubSeq(text, i, DurationAt(text, i) - 1) ELSE None

\* a variant that keeps the match as it is written
TextFlightNumberRaw(text) ==
    LET i == SearchPos("flight_num", text)
    IN  IF i # 0 THEN SubSeq(text, i, FlightNumAt(text, i) - 1) ELSE None

\* f"UA {flight_match.group(1)}"
TextFlightNumber(text) ==
    LET i == SearchPos("flight_num", text)
    IN  IF i # 0
        THEN <<"U", "A", " ">> \o SubSeq(text, FlightDigitsAt(text, i), FlightNumAt(text, i) - 1)
        ELSE None

\* the stops label
TextStops(text) ==
    LET low == Lower(text)
    IN  IF Contains(low, <<"n", "o", "n", "s", "t", "o", "p">>)
           \/ Contains(low, <<"n", "o", "n", "-", "s", "t", "o", "p">>)
        THEN <<"N", "o", "n", "s", "t", "o", "p">>
        ELSE IF Contains(low, <<"1", " ", "s", "t", "o", "p">>)
        THEN <<"1", " ", "s", "t", "o", "p">>
        ELSE IF Contains(low, <<"2", " ", "s", "t", "o", "p">>)
        THEN <<"2", " ", "s", "t", "o", "p", "s">>
        ELSE None

\* the text of a sub-element that left the page: reading it raises
StaleText == <<"StaleElementReferenceException">>

\* the loop over time_selectors, from selector k on; t is <<departure_time,
\* arrival_time>> so far.  A selector whose lookup raises, or that yields
\* fewer than two elements, changes nothing.  Reading the text of the first
\* element may raise (nothing is assigned), and so may reading the second
\* (the departure time is assigned already); the loop then goes on with the
\* next selector.  Two texts read end the loop.
RECURSIVE TimeSelectors(_, _, _)
TimeSelectors(card, k, t) ==
    IF k > Len(card.timeEls) THEN t
    ELSE LET found == card.timeEls[k]
         IN  IF found.raises \/ Len(found.els) < 2
             THEN TimeSelectors(card, k + 1, t)
             ELSE IF found.els[1] = StaleText
             THEN TimeSelectors(card, k + 1, t)
             ELSE IF found.els[2] = StaleText
             THEN TimeSelectors(card, k + 1, <<Strip(found.els[1]), t[2]>>)
             ELSE <<Strip(found.els[1]), Strip(found.els[2])>>

\* a variant whose text pass takes a single time for the arrival time
CardTimesSingle(card) ==
    LET times == FindAllTimes(card.text, 1)
    IN  TimeSelectors(card, 1, IF Len(times) = 1 THEN <<None, times[1]>>
                               ELSE TextTimes(card.text))

\* departure and arrival time after the loop over time_selectors
CardTimes(card) == TimeSelectors(card, 1, TextTimes(card.text))

\* the loop `for price_elem in price_elements` over the elements els of one
\* selector; pm is <<price_usd, price_miles>> so far.  Reading the text of an
\* element may raise, which ends the loop over the elements of this selector.
RECURSIVE PriceElems(_, _)
PriceElems(els, pm) ==
    IF els = <<>> \/ Head(els) = StaleText THEN pm
    ELSE LET price_text == Strip(Head(els))
             low == Lower(price_text)
             next == IF Contains(price_text, <<"$">>) /\ pm[1] \in {None, <<>>}
                     THEN <<price_text, pm[2]>>
                     ELSE IF (Contains(low, <<"m", "i", "l", "e", "s">>)
                                \/ Contains(low, <<"p", "o", "i", "n", "t", "s">>))
                             /\ pm[2] \in {None, <<>>}
                     THEN <<pm[1], price_text>>
                     ELSE pm
         IN  PriceElems(Tail(els), next)

\* the loop over price_selectors, from selector k on
RECURSIVE PriceSelectors(_, _, _)
PriceSelectors(card, k, pm) ==
    IF k > Len(card.priceEls) THEN pm
    ELSE IF card.priceEls[k].raises THEN PriceSelectors(card, k + 1, pm)
    ELSE PriceSelectors(card, k + 1, PriceElems(card.priceEls[k].els, pm))

\* a variant in which the price of a sub-element replaces the price of the text
CardPricesStructural(card) ==
    LET sub == PriceSelectors(card, 1, <<None, None>>)
    IN  <<IF sub[1] # None THEN sub[1] ELSE TextUsd(card.text),
          IF sub[2] # None THEN sub[2] ELSE TextMiles(card.text)>>

\* price_usd and price_miles after the loop over price_selectors
CardPrices(card) ==
    PriceSelectors(card, 1, <<TextUsd(card.text), TextMiles(card.text)>>)

\* the record _parse_flight_card_flexible returns, None (its except clause)
\* when element.text raises
ParseFlightCardFlexible(card, direction) ==
    IF card.stale THEN NoneDict
    ELSE LET times == CardTimes(card)
             prices == CardPrices(card)
         IN  [direction      |-> direction,
              airline        |-> AirlineName,
              departure_time |-> times[1],
              arrival_time   |-> times[2],
              duration       |-> TextDuration(card.text),
              stops          |-> TextStops(card.text),
              price_usd      |-> prices[1],
              price_miles    |-> prices[2],
              cabin_class    |-> None,
              flight_number  |-> TextFlightNumber(card.text),
              raw_text       |-> card.text]

(***************************************************************************)
(* The pages.  The cards and text nodes are drawn from two small           *)
(* catalogues; a page is a number of them in a rotation of the catalogue.  *)
(***************************************************************************)
NoSub == <<NoEls, NoEls, NoEls, NoEls>>

Els(texts) == [raises |-> FALSE, els |-> texts]

Raises == [raises |-> TRUE, els |-> <<>>]

SampleText == <<"6", ":", "0", "0", " ", "A", "M", " ", "9", ":", "1", "5", " ", "A", "M", " ", "$", "2", "4", "5", " ", "U", "A", " ", "1", "2", "3", " ", "N", "o", "n", "s", "t", "o", "p">>

\* a card of plain text, without sub-elements
SampleCard == [text |-> SampleText, stale |-> FALSE, timeEls |-> NoSub, priceEls |-> NoSub]

\* a card whose text holds no time and no price, with time and price elements
PendingCard ==
    [text |-> <<"D", "e", "p", "a", "r", "t", "s", " ", "T", "B", "D", " ", "A", "r", "r", "i", "v", "e", "s", " ", "T", "B", "D", " ", "F", "a", "r", "e", " ", "$", "-", "-">>,
     stale |-> FALSE,
     timeEls |-> <<NoEls, Els(<<<<" ", "T", "B", "D", " ">>, <<"T", "B", "D">>>>), NoEls, NoEls>>,
     priceEls |-> <<Els(<<<<"$", "-", "-">>>>), NoEls, NoEls, NoEls>>]

\* a card that left the page: reading its text raises
StaleCard == [text |-> <<>>, stale |-> TRUE, timeEls |-> NoSub, priceEls |-> NoSub]

\* a card with times and prices both in its text and in sub-elements
RichCard ==
    [text |-> <<"U", "n", "i", "t", "e", "d", " ", "4", "5", "6", " ", "D", "e", "p", "a", "r", "t", "s", " ", "7", ":", "0", "5", " ", "P", "M", " ", "A", "r", "r", "i", "v", "e", "s", " ", "8", ":", "3", "0", " ", "P", "M", " ", "1", " ", "s", "t", "o", "p", " ", "1", "h", " ", "2", "5", "m", " ", "f", "r", "o", "m", " ", "$", "9", "9", ".", "5", "0", " ", "o", "r", " ", "1", "2", ",", "5", "0", "0", " ", "m", "i", "l", "e", "s">>,
     stale |-> FALSE,
     timeEls |-> <<Raises, Els(<<<<" ", "D", "e", "p", "a", "r", "t", "s", " ", "7", ":", "0", "5", " ", "P", "M", " ">>, <<"A", "r", "r", "i", "v", "e", "s", " ", "8", ":", "3", "0", " ", "P", "M">>>>), NoEls, NoEls>>,
     priceEls |-> <<Raises, Els(<<<<"f", "r", "o", "m", " ", "$", "9", "9", ".", "5", "0", " ">>, <<"o", "r", " ", "1", "2", ",", "5", "0", "0", " ", "m", "i", "l", "e", "s">>>>), NoEls, NoEls>>]

\* a card with one time only and no price
PartialCard ==
    [text |-> <<"U", "A", "7", "8", "9", " ", "2", " ", "s", "t", "o", "p", "s", " ", "1", "1", ":", "4", "5">>,
     stale |-> FALSE,
     timeEls |-> <<NoEls, NoEls, Els(<<<<"1", "1", ":", "4", "5">>>>), NoEls>>,
     priceEls |-> NoSub]

\* a card without any time, price or flight number
PlainCard ==
    [text |-> <<"S", "F", "O", " ", "t", "o", " ", "L", "A", "X", " ", "E", "c", "o", "n", "o", "m", "y">>, stale |-> FALSE, timeEls |-> NoSub, priceEls |-> NoSub]

CardCatalogue == <<SampleCard, PendingCard, StaleCard, RichCard, PartialCard, PlainCard>>

\* cards with some of the fields only
FareCard ==
    [text |-> <<"N", "o", "n", "s", "t", "o", "p", " ", "$", "1", "2", "0", " ", "o", "r", " ", "2", "5", ",", "0", "0", "0", " ", "p", "o", "i", "n", "t", "s">>,
     stale |-> FALSE, timeEls |-> NoSub, priceEls |-> NoSub]

NumberCard ==
    [text |-> <<"U", "A", " ", "1", "2", " ", "n", "o", "n", "s", "t", "o", "p">>,
     stale |-> FALSE, timeEls |-> NoSub, priceEls |-> NoSub]

DurationCard ==
    [text |-> <<"U", "n", "i", "t", "e", "d", " ", "7", " ", "1", "h", " ", "5", "m">>,
     stale |-> FALSE, timeEls |-> NoSub, priceEls |-> NoSub]

MilesCard ==
    [text |-> <<"6", ":", "0", "0", " ", "A", "M", " ", "9", ":", "1", "5", " ", "A", "M", " ", "2", "5", ",", "0", "0", "0", " ", "m", "i", "l", "e", "s">>,
     stale |-> FALSE, timeEls |-> NoSub, priceEls |-> NoSub]

\* a card whose second time element and whose first price element left the page
HalfCard ==
    [text |-> <<"D", "e", "p", "a", "r", "t", "s", " ", "7", ":", "0", "5", " ", "P", "M", " ", "g", "a", "t", "e", " ", "B">>,
     stale |-> FALSE,
     timeEls |-> <<Els(<<<<"7", ":", "0", "5", " ", "P", "M">>, StaleText>>), NoEls, NoEls, NoEls>>,
     priceEls |-> <<Els(<<StaleText, <<"$", "5", "5">>>>), Els(<<<<"$", "6", "0">>>>), NoEls, NoEls>>]

\* a card whose first time element left the page
StaleFirstCard ==
    [text |-> <<"A", "r", "r", "i", "v", "e", "s", " ", "8", ":", "3", "0", " ", "P", "M">>,
     stale |-> FALSE,
     timeEls |-> <<Els(<<StaleText, <<"8", ":", "3", "0", " ", "P", "M">>>>), NoEls, NoEls, NoEls>>,
     priceEls |-> NoSub]

\* a card with the flight number in lower case
LowerCaseCard ==
    [text |-> <<"f", "l", "i", "g", "h", "t", " ", "u", "a", "3", "2", "1", " ", "t", "o", " ", "L", "A", "X">>,
     stale |-> FALSE, timeEls |-> NoSub, priceEls |-> NoSub]

\* every card above, on one page
EveryCard ==
    CardCatalogue \o <<FareCard, NumberCard, DurationCard, MilesCard, HalfCard, StaleFirstCard,
                       LowerCaseCard>>

\* n cards: the catalogue from its entry k + 1 on, cyclically
CardList(n, k) ==
    [j \in 1..n |-> CardCatalogue[((j + k - 1) % Len(CardCatalogue)) + 1]]

TextNode(data) == [kind |-> "text", data |-> data]

TagNode(data) == [kind |-> "tag", data |-> data]

NodeCatalogue ==
    <<TextNode(<<"F", "r", "o", "m", " ", "$", "2", "4", "5">>), TextNode(<<"6", ":", "0", "0", " ", "A", "M">>), TagNode(<<"d", "i", "v">>),
      TextNode(<<"9", ":", "1", "5", " ", "A", "M">>), TextNode(<<"U", "A", " ", "1", "2", "3">>), TextNode(<<"S", "F", "O", " ", "t", "o", " ", "L", "A", "X">>),
      TextNode(<<"$", "1", "9", "9", " ", "o", "r", " ", "$", "1", "8", "0", " ", "7", ":", "0", "5">>)>>

BothNode == TextNode(<<"$", "2", "4", "5", " ", "6", ":", "0", "0", " ", "A", "M">>)

\* n nodes: the catalogue from its entry k + 1 on, cyclically
NodeList(n, k) ==
    [j \in 1..n |-> NodeCatalogue[((j + k - 1) % Len(NodeCatalogue)) + 1]]

\* n text nodes that each hold a price and a time
UniformNodes(n) == [j \in 1..n |-> BothNode]

(***************************************************************************)
(* Program constants.                                                      *)
(***************************************************************************)
\* flight_card_selectors of _extract_flight_data, in their order
FlightCardSelectors ==
    <<"[data-testid='flight-card']", ".flight-card", ".flight-result",
      ".flight-option", ".search-result-item", ".flight-details",
      "[class*='flight'][class*='card']", "[class*='flight-row']">>

\* flight_elements[:20]
CardLimit == 20

\* 'outbound' if i < 10 else 'return'
OutboundLimit == 10

\* price_elements[:10], time_elements[:20]
RawPriceLimit == 10

RawTimeLimit == 20

\* Retry(total=3, backoff_factor=1, status_forcelist=[429, 500, 502, 503, 504])
RetryTotal == 3

BackoffFactor == 1

StatusForcelist == {429, 500, 502, 503, 504}

(***************************************************************************)
(* Bounds of the model.                                                    *)
(***************************************************************************)
\* the most cards one selector matches
MaxCards == 21

\* the most nodes of the markup
MaxNodes == 42

\* the most searches run over the same site
MaxSearches == 2

(***************************************************************************)
(* The sites: what the browser shows (for each selector of the cascade the *)
(* cards it matches) and the markup the plain HTTP fetch gets.             *)
(***************************************************************************)
\* the selector numbered first matches n cards, the later ones `later` cards
Dom(first, n, k, later) ==
    [j \in 1..Len(FlightCardSelectors) |->
        IF first = 0 \/ j < first THEN <<>>
        ELSE IF j = first THEN CardList(n, k)
        ELSE CardList(later, k + 1)]

Doms ==
    {Dom(f, 3, 0, 2) : f \in 0..Len(FlightCardSelectors)}
        \cup {Dom(1, n, k, 0) : n \in 0..MaxCards, k \in 0..(Len(CardCatalogue) - 1)}
        \cup {[j \in 1..Len(FlightCardSelectors) |->
                 IF j = 2 THEN [c \in 1..n |-> SampleCard] ELSE <<>>] : n \in 1..MaxCards}
        \cup {[j \in 1..Len(FlightCardSelectors) |-> IF j = 1 THEN EveryCard ELSE <<>>]}

Htmls ==
    {UniformNodes(n) : n \in 0..MaxNodes}
        \cup {NodeList(n, k) : n \in 0..MaxNodes, k \in {0, 1, 4}}

\* What the network and the browser do during a search:
\*   fail     : the browser call that raises ("none": no call raises)
\*   blocked  : the page shows a blocking text
\*   failures : the number of requests of the HTTP fetch that fail at first
\*   kind     : how they fail, a connection error (0) or a status
\*   final    : the status of the request after these failures
\*   save     : the debug file can be written
BrowserOk(blocked) ==
    [fail |-> "none", blocked |-> blocked, failures |-> 0, kind |-> 0,
     final |-> 200, save |-> TRUE]

BrowserFails(fail, failures, kind, final, save) ==
    [fail |-> fail, blocked |-> fail = "refresh", failures |-> failures,
     kind |-> kind, final |-> final, save |-> save]

Envs ==
    {BrowserOk(b) : b \in BOOLEAN}
        \cup {BrowserFails(f, 0, 0, 200, TRUE) : f \in {"get", "check", "refresh", "wait"}}
        \cup {BrowserFails("get", n, k, f, TRUE) :
                 n \in 0..(RetryTotal + 1), k \in {0, 503}, f \in {200, 404}}
        \cup {BrowserFails("get", 0, 0, 200, FALSE)}

\* the status of request number n of one fetch
Status(e, n) == IF n <= e.failures THEN e.kind ELSE e.final

SmallDoms == {Dom(f, 3, k, 2) : f \in {0, 1, 3}, k \in {0, 2}}

SmallHtmls == {NodeList(n, 0) : n \in {0, 2, 7}}

\* the scenarios: every environment over the small sites, the large pages in
\* a browser that works, the large markups behind a browser that fails
Scenarios ==
    {[dom |-> d, html |-> h, env |-> e] : d \in SmallDoms, h \in SmallHtmls, e \in Envs}
        \cup {[dom |-> d, html |-> NodeList(7, 0), env |-> BrowserOk(FALSE)] : d \in Doms}
        \cup {[dom |-> Dom(1, 1, 0, 0), html |-> h,
                env |-> BrowserFails("get", 0, 0, 200, TRUE)] : h \in Htmls}

Min(a, b) == IF a <= b THEN a ELSE b

\* s[:n]
Take(s, n) == SubSeq(s, 1, Min(Len(s), n))

\* d is a flights dict, not None
IsSearchResultDict(d) == "outbound" \in DOMAIN d

\* the state of the disk before save_results has written anything
NoFiles == [call |-> 0, json |-> NoneDict, csv |-> NoneDict]

(***************************************************************************)
(* cat_feat (predict-customer-wait-time): the frames.  A frame is its        *)
(* columns in their order, a column a label and its values by row.          *)
(***************************************************************************)
\* the most columns of a frame
MaxColumns == 2

\* the values of a column: all rows alike, or two levels
ColumnValues == {<<"a", "a">>, <<"a", "b">>, <<"b", "c">>}

Column(label, values) == [label |-> label, values |-> values]

\* the frames of n columns, labelled 1 to n
Frames(n) ==
    {[c \in 1..n |-> Column(c, v[c])] : v \in [1..n -> ColumnValues]}

\* test=None, and a test frame
NoFrame == [none |-> TRUE, columns |-> <<>>]

Frame(columns) == [none |-> FALSE, columns |-> columns]

\* Series.nunique(): the number of distinct values
NUnique(column) == Cardinality({column.values[r] : r \in DOMAIN column.values})

\* np.sort(Series.unique()): the levels; two sorted arrays of one length are
\* equal in every entry exactly when the sets are equal
Levels(column) == {column.values[r] : r \in DOMAIN column.values}

\* frame[frame.columns[keep]]: the columns whose entry of keep is True
Select(columns, mask) ==
    LET kept == SelectSeq([c \in 1..Len(columns) |-> c], LAMBDA c : mask[c])
    IN  [j \in 1..Len(kept) |-> columns[kept[j]]]

(***************************************************************************)
(* The state.                                                              *)
(***************************************************************************)
VARIABLES
    dom,             \* the page the browser shows: selector number -> cards
    html,            \* the markup the HTTP fetch gets: a sequence of nodes
    env,             \* what the browser and the network do
    pc,              \* where search_flights stands
    searches,        \* the number of calls of search_flights so far
    clock,           \* datetime.now(), in ticks
    flights,         \* the flights dict of the running extraction
    sel,             \* the number of the selector the cascade is at
    flight_elements, \* the cards of the first selector that matched
    i,               \* the loop index of the card loop or of the pairing loop
    flight_info,     \* the record built last, NoneDict when parsing gave None
    price_elements,  \* the text nodes that hold a price
    time_elements,   \* the text nodes that hold a time
    retries,         \* the retries the HTTP adapter has used in this fetch
    log,             \* the acquisitions and extraction passes of this search
    returned,        \* the values returned so far: <<[op, value], ...>>
    files,           \* what the latest call of save_results wrote
    saved,           \* the number of the search whose result was last saved
    train,           \* cat_feat: the training frame
    valid,           \* cat_feat: the validation frame
    test,            \* cat_feat: the test frame, or None
    keep,            \* cat_feat: the list keep
    step,            \* cat_feat: where the call stands
    result,          \* cat_feat: what the call returned or raised
    stage,           \* main: where it stands ("none": main does not run)
    driver,          \* the browser of self.driver: "none", "started" or "quit"
    outcome          \* main: how it ended

vars == <<dom, html, env, pc, searches, clock, flights, sel, flight_elements, i,
          flight_info, price_elements, time_elements, retries, log, returned,
          files, saved, train, valid, test, keep, step, result,
          stage, driver, outcome>>

\* the variables of the scraper
scraper == <<dom, html, env, pc, searches, clock, flights, sel, flight_elements, i,
             flight_info, price_elements, time_elements, retries, log, returned,
             files, saved>>

\* the variables of main
process == <<stage, driver, outcome>>

\* a scraper that was constructed, outside of main
NoMain ==
    /\ stage = "none"
    /\ driver = "started"
    /\ outcome = "none"

\* the variables of cat_feat
frames == <<train, valid, test, keep, step, result>>

\* no call of cat_feat is made
NoCatFeat ==
    /\ train = <<>>
    /\ valid = <<>>
    /\ test = NoFrame
    /\ keep = <<>>
    /\ step = "none"
    /\ result = <<>>

\* the scraper before its first search
NewScraper ==
    /\ pc = "idle"
    /\ searches = 0
    /\ clock = 0
    /\ flights = NoneDict
    /\ sel = 0
    /\ flight_elements = <<>>
    /\ i = 0
    /\ flight_info = NoneDict
    /\ price_elements = <<>>
    /\ time_elements = <<>>
    /\ retries = 0
    /\ log = <<>>
    /\ returned = <<>>
    /\ files = NoFiles
    /\ saved = 0

Init ==
    /\ \E sc \in Scenarios : dom = sc.dom /\ html = sc.html /\ env = sc.env
    /\ NewScraper
    /\ NoCatFeat
    /\ NoMain

(***************************************************************************)
(* search_flights: the browser acquisition.                                *)
(***************************************************************************)
\* a call of search_flights: the URL is built and the first sleep is taken
SearchFlights ==
    /\ pc = "idle"
    /\ searches < MaxSearches
    /\ searches' = searches + 1
    /\ clock' = clock + 1
    /\ pc' = "get"
    /\ log' = <<>>
    /\ retries' = 0
    /\ UNCHANGED <<dom, html, env, flights, sel, flight_elements, i, flight_info,
                   price_elements, time_elements, returned,
                   files, saved, frames, process>>

\* self.driver.get(search_url): the page loads, or the call raises
DriverGet ==
    /\ pc = "get"
    /\ pc' = IF env.fail # "get" THEN "check" ELSE "except"
    /\ log' = Append(log, "get")
    /\ clock' = clock + 1
    /\ UNCHANGED <<dom, html, env, searches, flights, sel, flight_elements, i,
                   flight_info, price_elements, time_elements, retries, returned,
                   files, saved, frames, process>>

\* the scrolls and the check for a blocking page
CheckBlocked ==
    /\ pc = "check"
    /\ pc' = IF env.fail = "check" THEN "except"
             ELSE IF env.blocked THEN "refresh"
             ELSE "popups"
    /\ UNCHANGED <<dom, html, env, searches, clock, flights, sel, flight_elements, i,
                   flight_info, price_elements, time_elements, retries, log, returned,
                   files, saved, frames, process>>

\* _rotate_user_agent (which catches its errors) and self.driver.refresh()
Refresh ==
    /\ pc = "refresh"
    /\ pc' = IF env.fail # "refresh" THEN "popups" ELSE "except"
    /\ log' = Append(log, "refresh")
    /\ UNCHANGED <<dom, html, env, searches, clock, flights, sel, flight_elements, i,
                   flight_info, price_elements, time_elements, retries, returned,
                   files, saved, frames, process>>

\* _handle_popups: every error in it is caught
HandlePopups ==
    /\ pc = "popups"
    /\ pc' = "wait"
    /\ UNCHANGED <<dom, html, env, searches, clock, flights, sel, flight_elements, i,
                   flight_info, price_elements, time_elements, retries, log, returned,
                   files, saved, frames, process>>

\* _wait_for_search_results: reading current_url or title may raise; its
\* result is not used
WaitForSearchResults ==
    /\ pc = "wait"
    /\ pc' = IF env.fail # "wait" THEN "extract" ELSE "except"
    /\ UNCHANGED <<dom, html, env, searches, clock, flights, sel, flight_elements, i,
                   flight_info, price_elements, time_elements, retries, log, returned,
                   files, saved, frames, process>>

(***************************************************************************)
(* _extract_flight_data.                                                   *)
(***************************************************************************)
\* a variant that goes on with the lists of the dict made before (a dict
\* shared between the calls)
NewFlightsShared(now) ==
    IF IsSearchResultDict(flights)
    THEN [outbound |-> flights.outbound, return |-> flights.return,
          search_date |-> now, route |-> "SFO-LAX"]
    ELSE [outbound |-> <<>>, return |-> <<>>, search_date |-> now, route |-> "SFO-LAX"]

\* a variant that labels the dict with an extraction method
NewFlightsLabelled(now) ==
    [outbound |-> <<>>, return |-> <<>>, search_date |-> now, route |-> "SFO-LAX",
     method |-> "structured"]

\* the flights dict _extract_flight_data starts from
NewFlights(now) ==
    [outbound |-> <<>>, return |-> <<>>, search_date |-> now, route |-> "SFO-LAX"]

\* a variant with the comparison off by one
DirectionOffByOne(n) == IF n <= OutboundLimit THEN "outbound" ELSE "return"

\* 'outbound' if i < 10 else 'return'
Direction(n) == IF n < OutboundLimit THEN "outbound" ELSE "return"

\* a variant that stores the record in the other list
AppendFlightSwapped(f, direction, info) ==
    IF direction = "outbound"
    THEN [f EXCEPT !.return = Append(@, info)]
    ELSE [f EXCEPT !.outbound = Append(@, info)]

\* a variant that puts the record in front of the list
AppendFlightFront(f, direction, info) ==
    IF direction = "outbound"
    THEN [f EXCEPT !.outbound = <<info>> \o @]
    ELSE [f EXCEPT !.return = <<info>> \o @]

\* flights[direction].append(flight_info)
AppendFlight(f, direction, info) ==
    IF direction = "outbound"
    THEN [f EXCEPT !.outbound = Append(@, info)]
    ELSE [f EXCEPT !.return = Append(@, info)]

ExtractBegin ==
    /\ pc = "extract"
    /\ flights' = NewFlights(clock)
    /\ clock' = clock + 1
    /\ sel' = 1
    /\ flight_elements' = <<>>
    /\ pc' = "cascade"
    /\ log' = Append(log, "extract")
    /\ UNCHANGED <<dom, html, env, searches, i, flight_info, price_elements,
                   time_elements, retries, returned,
                   files, saved, frames, process>>

\* a variant that tries every selector and gathers the matches of all of them
TrySelectorMerging ==
    /\ pc = "cascade"
    /\ flight_elements' = flight_elements \o dom[sel]
    /\ pc' = IF sel < Len(FlightCardSelectors) THEN "cascade"
             ELSE IF flight_elements' = <<>> THEN "generic"
             ELSE "cards"
    /\ sel' = IF sel < Len(FlightCardSelectors) THEN sel + 1 ELSE sel
    /\ i' = 0
    /\ UNCHANGED <<dom, html, env, searches, clock, flights, flight_info,
                   price_elements, time_elements, retries, log, returned,
                   files, saved, frames, process>>

\* one turn of `for selector in flight_card_selectors`: the wait times out
\* when nothing matches (caught, continue), and the first match ends the loop
TrySelector ==
    /\ pc = "cascade"
    /\ IF dom[sel] # <<>>
       THEN /\ flight_elements' = dom[sel]
            /\ pc' = "cards"
            /\ sel' = sel
       ELSE /\ flight_elements' = flight_elements
            /\ pc' = IF sel = Len(FlightCardSelectors) THEN "generic" ELSE "cascade"
            /\ sel' = sel + 1
    /\ i' = 0
    /\ UNCHANGED <<dom, html, env, searches, clock, flights, flight_info,
                   price_elements, time_elements, retries, log, returned,
                   files, saved, frames, process>>

\* a variant in which finding no card is an error the search escalates
GenericSearchRaises ==
    /\ pc = "generic"
    /\ pc' = "except"
    /\ UNCHANGED <<dom, html, env, searches, clock, flights, sel, flight_elements, i,
                   flight_info, price_elements, time_elements, retries, log, returned,
                   files, saved, frames, process>>

\* `if not flight_cards_found`: the generic search only prints; its errors
\* are caught
GenericSearch ==
    /\ pc = "generic"
    /\ pc' = "cards"
    /\ UNCHANGED <<dom, html, env, searches, clock, flights, sel, flight_elements, i,
                   flight_info, price_elements, time_elements, retries, log, returned,
                   files, saved, frames, process>>

\* a variant in which the error of a card ends the pass: it reaches the
\* `except Exception` of search_flights
ParseCardRaising ==
    /\ pc = "cards"
    /\ i < Len(Take(flight_elements, CardLimit))
    /\ flight_info' = ParseFlightCardFlexible(flight_elements[i + 1], Direction(i))
    /\ flights' = IF flight_info' # NoneDict
                  THEN AppendFlight(flights, Direction(i), flight_info')
                  ELSE flights
    /\ pc' = IF flight_info' # NoneDict THEN pc ELSE "except"
    /\ i' = i + 1
    /\ UNCHANGED <<dom, html, env, searches, clock, sel, flight_elements,
                   price_elements, time_elements, retries, log, returned,
                   files, saved, frames, process>>

\* one turn of `for i, flight in enumerate(flight_elements[:20])`
ParseCard ==
    /\ pc = "cards"
    /\ i < Len(Take(flight_elements, CardLimit))
    /\ flight_info' = ParseFlightCardFlexible(flight_elements[i + 1], Direction(i))
    /\ flights' = IF flight_info' # NoneDict
                  THEN AppendFlight(flights, Direction(i), flight_info')
                  ELSE flights
    /\ i' = i + 1
    /\ UNCHANGED <<dom, html, env, pc, searches, clock, sel, flight_elements,
                   price_elements, time_elements, retries, log, returned,
                   files, saved, frames, process>>

Returned(op, value) == [op |-> op, value |-> value]

\* a variant that escalates a result without records to the fallback
ReturnFlightsOrFallback ==
    /\ pc = "cards"
    /\ i >= Len(Take(flight_elements, CardLimit))
    /\ IF flights.outbound = <<>> /\ flights.return = <<>>
       THEN pc' = "except" /\ returned' = returned
       ELSE /\ returned' = returned \o <<Returned("_extract_flight_data", flights),
                                         Returned("search_flights", flights)>>
            /\ pc' = "idle"
    /\ UNCHANGED <<dom, html, env, searches, clock, flights, sel, flight_elements, i,
                   flight_info, price_elements, time_elements, retries, log,
                   files, saved, frames, process>>

\* `return flights`, which search_flights hands on to its caller
ReturnFlights ==
    /\ pc = "cards"
    /\ i >= Len(Take(flight_elements, CardLimit))
    /\ returned' = returned \o <<Returned("_extract_flight_data", flights),
                                 Returned("search_flights", flights)>>
    /\ pc' = "idle"
    /\ UNCHANGED <<dom, html, env, searches, clock, flights, sel, flight_elements, i,
                   flight_info, price_elements, time_elements, retries, log,
                   files, saved, frames, process>>

(***************************************************************************)
(* _fallback_requests_method: the HTTP fetch, through a session whose      *)
(* adapter retries (urllib3 Retry).                                        *)
(***************************************************************************)
\* a variant that retries connection errors only
RetryableErrorsOnly(status) == status = 0

\* the adapter retries connection errors (status 0 here) and the statuses of
\* the forcelist
Retryable(status) == status = 0 \/ status \in StatusForcelist

RECURSIVE Pow2(_)
Pow2(n) == IF n <= 0 THEN 1 ELSE 2 * Pow2(n - 1)

\* the sleep before the retry that follows the n-th failure in a row:
\* backoff_factor * 2 ** (n - 1), and none after the first failure
Backoff(n) == IF n <= 1 THEN 0 ELSE BackoffFactor * Pow2(n - 1)

\* the `except Exception` of search_flights: the fallback is called
FallbackRequests ==
    /\ pc = "except"
    /\ pc' = "request"
    /\ retries' = 0
    /\ log' = Append(log, "fallback")
    /\ UNCHANGED <<dom, html, env, searches, clock, flights, sel, flight_elements, i,
                   flight_info, price_elements, time_elements, returned,
                   files, saved, frames, process>>

\* one request of session.get(search_url, timeout=30)
HttpRequest ==
    /\ pc = "request"
    /\ log' = Append(log, "http")
    /\ LET status == Status(env, retries + 1)
       IN IF Retryable(status) /\ retries < RetryTotal
          THEN \* the adapter sleeps and sends the request again
               /\ retries' = retries + 1
               /\ clock' = clock + Backoff(retries + 1)
               /\ pc' = "request"
               /\ returned' = returned
          ELSE IF status = 200
          THEN /\ pc' = "save"
               /\ UNCHANGED <<retries, clock, returned>>
          ELSE \* the retries are used up (the error is caught), or the status
               \* is not 200: the fallback returns None
               /\ pc' = "idle"
               /\ returned' = Append(returned, Returned("search_flights", NoneDict))
               /\ UNCHANGED <<retries, clock>>
    /\ UNCHANGED <<dom, html, env, searches, flights, sel, flight_elements, i,
                   flight_info, price_elements, time_elements,
                   files, saved, frames, process>>

\* the response is written to debug_requests_response.html; an error of the
\* write is caught and the fallback returns None
SaveResponse ==
    /\ pc = "save"
    /\ IF env.save
          THEN pc' = "parse" /\ returned' = returned
          ELSE /\ pc' = "idle"
               /\ returned' = Append(returned, Returned("search_flights", NoneDict))
    /\ UNCHANGED <<dom, html, env, searches, clock, flights, sel, flight_elements, i,
                   flight_info, price_elements, time_elements, retries, log,
                   files, saved, frames, process>>

(***************************************************************************)
(* _parse_html_content.                                                    *)
(***************************************************************************)
\* the strings of the parsed document, in document order
TextNodes(markup) ==
    LET texts == SelectSeq(markup, LAMBDA node : node.kind = "text")
    IN  [j \in 1..Len(texts) |-> texts[j].data]

\* soup.find_all(text=re.compile(pattern)): the strings the pattern is found in
FindAllText(markup, pattern) ==
    SelectSeq(TextNodes(markup), LAMBDA t : SearchPos(pattern, t) # 0)

\* the flights dict _parse_html_content starts from
NewFlightsHtml(now) ==
    [outbound |-> <<>>, return |-> <<>>, search_date |-> now, route |-> "SFO-LAX",
     method |-> "requests_fallback"]

\* flights[key] = value when value is not empty
WithRaw(f, key, value) == IF value # <<>> THEN (key :> value) @@ f ELSE f

\* range(min(len(price_elements), len(time_elements)//2)) under
\* `if price_elements and time_elements`
PairCount(prices, times) ==
    IF prices # <<>> /\ times # <<>> THEN Min(Len(prices), Len(times) \div 2) ELSE 0

\* 'outbound' if i < len(price_elements)//2 else 'return'
PairDirection(n, prices) == IF n < Len(prices) \div 2 THEN "outbound" ELSE "return"

\* a variant that pairs price n with the times n and n + 1
PairInfoOverlapping(n, prices, times) ==
    [direction      |-> PairDirection(n, prices),
     airline        |-> AirlineName,
     price_usd      |-> IF n < Len(prices) THEN prices[n + 1] ELSE None,
     departure_time |-> IF n < Len(times) THEN times[n + 1] ELSE None,
     arrival_time   |-> IF n + 1 < Len(times) THEN times[n + 2] ELSE None,
     method         |-> "html_parsing"]

\* the flight_info of turn n of the pairing loop
PairInfo(n, prices, times) ==
    [direction      |-> PairDirection(n, prices),
     airline        |-> AirlineName,
     price_usd      |-> IF n < Len(prices) THEN prices[n + 1] ELSE None,
     departure_time |-> IF n * 2 < Len(times) THEN times[n * 2 + 1] ELSE None,
     arrival_time   |-> IF n * 2 + 1 < Len(times) THEN times[n * 2 + 2] ELSE None,
     method         |-> "html_parsing"]

\* a variant that returns the dict also when it is empty
HtmlReturnValueAlways(f) == f

\* return flights if flights['outbound'] or flights['return'] else None
HtmlReturnValue(f) == IF f.outbound # <<>> \/ f.return # <<>> THEN f ELSE NoneDict

\* the flights dict is made and the markup is parsed by BeautifulSoup
ParseBegin ==
    /\ pc = "parse"
    /\ flights' = NewFlightsHtml(clock)
    /\ pc' = "prices"
    /\ log' = Append(log, "parse")
    /\ UNCHANGED <<dom, html, env, searches, clock, sel, flight_elements, i, flight_info,
                   price_elements, time_elements, retries, returned,
                   files, saved, frames, process>>

\* price_elements, and flights['raw_prices'] when there is one
FindPrices ==
    /\ pc = "prices"
    /\ price_elements' = FindAllText(html, "usd")
    /\ flights' = WithRaw(flights, "raw_prices", Take(price_elements', RawPriceLimit))
    /\ pc' = "times"
    /\ UNCHANGED <<dom, html, env, searches, clock, sel, flight_elements, i, flight_info,
                   time_elements, retries, log, returned,
                   files, saved, frames, process>>

\* time_elements, and flights['raw_times'] when there is one
FindTimes ==
    /\ pc = "times"
    /\ time_elements' = FindAllText(html, "time")
    /\ flights' = WithRaw(flights, "raw_times", Take(time_elements', RawTimeLimit))
    /\ pc' = "numbers"
    /\ UNCHANGED <<dom, html, env, searches, clock, sel, flight_elements, i, flight_info,
                   price_elements, retries, log, returned,
                   files, saved, frames, process>>

\* flight_numbers, and flights['raw_flight_numbers'] when there is one
FindFlightNumbers ==
    /\ pc = "numbers"
    /\ flights' = WithRaw(flights, "raw_flight_numbers", FindAllText(html, "ua"))
    /\ i' = 0
    /\ pc' = "pairs"
    /\ UNCHANGED <<dom, html, env, searches, clock, sel, flight_elements, flight_info,
                   price_elements, time_elements, retries, log, returned,
                   files, saved, frames, process>>

\* one turn of the pairing loop
PairNext ==
    /\ pc = "pairs"
    /\ i < PairCount(price_elements, time_elements)
    /\ flight_info' = PairInfo(i, price_elements, time_elements)
    /\ flights' = AppendFlight(flights, PairDirection(i, price_elements), flight_info')
    /\ i' = i + 1
    /\ UNCHANGED <<dom, html, env, pc, searches, clock, sel, flight_elements,
                   price_elements, time_elements, retries, log, returned,
                   files, saved, frames, process>>

\* the return of _parse_html_content, handed on by _fallback_requests_method
\* and by search_flights
ParseReturn ==
    /\ pc = "pairs"
    /\ i >= PairCount(price_elements, time_elements)
    /\ returned' = returned \o <<Returned("_parse_html_content", HtmlReturnValue(flights)),
                                 Returned("search_flights", HtmlReturnValue(flights))>>
    /\ pc' = "idle"
    /\ UNCHANGED <<dom, html, env, searches, clock, flights, sel, flight_elements, i,
                   flight_info, price_elements, time_elements, retries, log,
                   files, saved, frames, process>>

(***************************************************************************)
(* save_results, called by main with the value search_flights returned.    *)
(***************************************************************************)
\* the keys of the records, in the order the dict literals give them: the
\* columns pd.DataFrame makes of a list of such records
CardColumns ==
    <<"direction", "airline", "departure_time", "arrival_time", "duration", "stops",
      "price_usd", "price_miles", "cabin_class", "flight_number", "raw_text">>

PairColumns ==
    <<"direction", "airline", "price_usd", "departure_time", "arrival_time", "method">>

\* a variant that leaves out the return flights
AllFlightsOutbound(flight_data) == flight_data.outbound

\* all_flights = flight_data['outbound'] + flight_data['return']
AllFlights(flight_data) == flight_data.outbound \o flight_data.return

\* the columns of pd.DataFrame(all_flights): the keys of the records
Columns(all_flights) ==
    IF "raw_text" \in DOMAIN all_flights[1] THEN CardColumns ELSE PairColumns

\* the keys whose value is one of the string literals of the code, never None
LiteralColumns == {"direction", "method"}

\* a cell of the CSV: the value, and nothing for None
Cell(record, column) ==
    IF column \notin DOMAIN record THEN <<>>
    ELSE IF column \in LiteralColumns THEN record[column]
    ELSE IF record[column] = None THEN <<>>
    ELSE record[column]

\* df.to_csv(csv_filename, index=False): the header and one row for each
\* record of all_flights, in their order
ToCsv(all_flights) ==
    LET columns == Columns(all_flights)
    IN  [columns |-> columns,
         rows |-> [j \in 1..Len(all_flights) |->
                      [c \in {columns[k] : k \in 1..Len(columns)} |->
                          Cell(all_flights[j], c)]]]

\* save_results(flight_data) for the value the last search returned: nothing
\* for None; else the JSON file, and the CSV file when there is a record
SaveResults ==
    /\ pc = "idle"
    /\ saved < searches
    /\ saved' = searches
    /\ LET flight_data == returned[Len(returned)].value
       IN  IF flight_data = NoneDict THEN files' = files
           ELSE files' = [call |-> searches,
                          json |-> flight_data,
                          csv |-> IF AllFlights(flight_data) # <<>>
                                  THEN ToCsv(AllFlights(flight_data))
                                  ELSE NoneDict]
    /\ UNCHANGED <<dom, html, env, pc, searches, clock, flights, sel, flight_elements,
                   i, flight_info, price_elements, time_elements, retries, log,
                   returned, frames, process>>

Next ==
    \/ SearchFlights
    \/ DriverGet
    \/ CheckBlocked
    \/ Refresh
    \/ HandlePopups
    \/ WaitForSearchResults
    \/ ExtractBegin
    \/ TrySelector
    \/ GenericSearch
    \/ ParseCard
    \/ ReturnFlights
    \/ FallbackRequests
    \/ HttpRequest
    \/ SaveResponse
    \/ ParseBegin
    \/ FindPrices
    \/ FindTimes
    \/ FindFlightNumbers
    \/ PairNext
    \/ ParseReturn
    \/ SaveResults

Spec == Init /\ [][Next]_vars

(***************************************************************************)
(* main: the scraper is constructed (setup_driver), one search is run and  *)
(* saved inside the try statement, and the finally clause closes the       *)
(* scraper.                                                                *)
(***************************************************************************)
InitMain ==
    /\ \E sc \in Scenarios : dom = sc.dom /\ html = sc.html /\ env = sc.env
    /\ NewScraper
    /\ NoCatFeat
    /\ stage = "start"
    /\ driver = "none"
    /\ outcome = "running"

\* UnitedFlightScraper(headless=False), before the try statement:
\* webdriver.Chrome starts the browser, or raises; setup_driver raises again
\* and the exception leaves main
StartChrome ==
    /\ stage = "start"
    /\ \E ok \in BOOLEAN :
          IF ok THEN driver' = "started" /\ stage' = "stealth" /\ outcome' = outcome
          ELSE driver' = driver /\ stage' = "ended" /\ outcome' = "raised"
    /\ UNCHANGED <<scraper, frames>>

\* the two execute_cdp_cmd calls of setup_driver, outside of its try
\* statement: an error of the browser leaves setup_driver, __init__ and main,
\* which has not entered its try statement
StealthScripts ==
    /\ stage = "stealth"
    /\ \E ok \in BOOLEAN :
          IF ok THEN stage' = "try" /\ outcome' = outcome
          ELSE stage' = "ended" /\ outcome' = "raised"
    /\ UNCHANGED <<driver, scraper, frames>>

\* the steps of scraper.search_flights and of scraper.save_results in the try
\* statement of main
MainTry ==
    /\ stage = "try"
    /\ \/ searches = 0 /\ SearchFlights
       \/ DriverGet
       \/ CheckBlocked
       \/ Refresh
       \/ HandlePopups
       \/ WaitForSearchResults
       \/ ExtractBegin
       \/ TrySelector
       \/ GenericSearch
       \/ ParseCard
       \/ ReturnFlights
       \/ FallbackRequests
       \/ HttpRequest
       \/ SaveResponse
       \/ ParseBegin
       \/ FindPrices
       \/ FindTimes
       \/ FindFlightNumbers
       \/ PairNext
       \/ ParseReturn
       \/ SaveResults

\* the try statement has run to its end
TryDone == pc = "idle" /\ searches = 1 /\ saved = 1

\* the end of the try statement: the finally clause is next
MainDone ==
    /\ stage = "try"
    /\ TryDone
    /\ stage' = "finally"
    /\ outcome' = "done"
    /\ UNCHANGED <<driver, scraper, frames>>

\* except KeyboardInterrupt: the user interrupts the try statement, wherever
\* it stands (search_flights catches Exception only)
MainInterrupt ==
    /\ stage = "try"
    /\ ~TryDone
    /\ stage' = "finally"
    /\ outcome' = "interrupted"
    /\ UNCHANGED <<driver, scraper, frames>>

\* except Exception: an error that search_flights does not catch, of
\* save_results writing its files
MainError ==
    /\ stage = "try"
    /\ pc = "idle" /\ searches = 1 /\ saved = 0
    /\ returned[Len(returned)].value # NoneDict
    /\ stage' = "finally"
    /\ outcome' = "error"
    /\ UNCHANGED <<driver, scraper, frames>>

\* finally: scraper.close(), which quits the driver the scraper has
Close ==
    /\ stage = "finally"
    /\ driver' = IF driver = "started" THEN "quit" ELSE driver
    /\ stage' = "ended"
    /\ UNCHANGED <<outcome, scraper, frames>>

NextMain ==
    \/ StartChrome
    \/ StealthScripts
    \/ MainTry
    \/ MainDone
    \/ MainInterrupt
    \/ MainError
    \/ Close

SpecMain == InitMain /\ [][NextMain]_vars

(***************************************************************************)
(* cat_feat(train, valid, test=None).                                      *)
(***************************************************************************)
\* a call of cat_feat on frames of the same columns, with or without test
InitCatFeat ==
    /\ dom = Dom(0, 0, 0, 0) /\ html = <<>> /\ env = BrowserOk(FALSE)
    /\ NewScraper
    /\ \E n \in 0..MaxColumns :
          /\ train \in Frames(n)
          /\ valid \in Frames(n)
          /\ test \in {NoFrame} \cup {Frame(f) : f \in Frames(n)}
    /\ keep = <<>>
    /\ step = "count"
    /\ result = <<>>
    /\ NoMain

\* train.nunique()[i] == valid.nunique()[i] == test.nunique()[i]: the chained
\* comparison reads test only when the first comparison holds
SameCount(c) == NUnique(train[c]) = NUnique(valid[c])

\* the first pass: the columns with the same number of levels are kept.  With
\* test=None, test.nunique() raises AttributeError at the first column whose
\* counts agree in train and valid.
CountLevels ==
    /\ step = "count"
    /\ IF test.none /\ \E c \in 1..Len(train) : SameCount(c)
       THEN /\ result' = <<"AttributeError">>
            /\ step' = "raised"
            /\ UNCHANGED <<train, valid, test, keep>>
       ELSE /\ keep' = [c \in 1..Len(train) |->
                          /\ SameCount(c)
                          /\ NUnique(valid[c]) = NUnique(test.columns[c])]
            /\ train' = Select(train, keep')
            /\ valid' = Select(valid, keep')
            /\ test' = IF test.none THEN test ELSE Frame(Select(test.columns, keep'))
            /\ step' = "levels"
            /\ result' = result
    /\ UNCHANGED <<scraper, process>>

\* all(np.sort(train...unique()) == np.sort(valid...unique())) and all(... test ...)
SameLevels(c) == Levels(train[c]) = Levels(valid[c])

\* the second pass: the columns with the same levels are kept, and the frames
\* are returned.  With test=None, test.iloc raises AttributeError at the first
\* column whose levels agree in train and valid.
MatchLevels ==
    /\ step = "levels"
    /\ IF test.none /\ \E c \in 1..Len(train) : SameLevels(c)
       THEN /\ result' = <<"AttributeError">>
            /\ step' = "raised"
            /\ UNCHANGED <<train, valid, test, keep>>
       ELSE /\ keep' = [c \in 1..Len(train) |->
                          /\ SameLevels(c)
                          /\ Levels(valid[c]) = Levels(test.columns[c])]
            /\ train' = Select(train, keep')
            /\ valid' = Select(valid, keep')
            /\ test' = IF test.none THEN test ELSE Frame(Select(test.columns, keep'))
            /\ step' = "returned"
            /\ result' = IF test.none THEN <<train', valid'>>
                         ELSE <<train', valid', test'.columns>>
    /\ UNCHANGED <<scraper, process>>

NextCatFeat ==
    \/ CountLevels
    \/ MatchLevels

SpecCatFeat == InitCatFeat /\ [][NextCatFeat]_vars

(***************************************************************************)
(* Properties.                                                             *)
(***************************************************************************)
\* the values op has returned so far
Values(op) == {returned[j].value : j \in {k \in 1..Len(returned) : returned[k].op = op}}

\* v is a flights dict (a SearchResult), not None
IsSearchResult(v) == {"outbound", "return"} \subseteq DOMAIN v

\* the number of entries x of the log of the running search
Count(x) == Cardinality({j \in 1..Len(log) : log[j] = x})

\* no selector of the cascade matches an element
NoSelectorMatches == \A j \in 1..Len(FlightCardSelectors) : dom[j] = <<>>

\* the markup holds no pair of a price string and two time strings
NoTextualMatch ==
    \/ FindAllText(html, "usd") = <<>>
    \/ Len(FindAllText(html, "time")) < 2

\* the search is over
SearchOver == pc = "idle" /\ searches > 0

\* C1 as stated: every value _extract_flight_data and _parse_html_content
\* return is a SearchResult, with empty sequences when no data is found
C1_Original ==
    \A v \in Values("_extract_flight_data") \cup Values("_parse_html_content") :
        IsSearchResult(v)

\* C1, amended: both extraction operations end in a return; the value of
\* _extract_flight_data is always a SearchResult, with empty outbound and
\* return when no selector matches; the value of _parse_html_content is a
\* SearchResult that holds a record or more, or None, and it is None when the
\* markup holds no price string or fewer than two time strings
C1_Amended ==
    /\ \A v \in Values("_extract_flight_data") :
          /\ IsSearchResult(v)
          /\ NoSelectorMatches => v.outbound = <<>> /\ v.return = <<>>
    /\ \A v \in Values("_parse_html_content") :
          /\ v = NoneDict \/ (IsSearchResult(v) /\ Len(v.outbound) + Len(v.return) > 0)
          /\ NoTextualMatch => v = NoneDict
    /\ SearchOver /\ Count("extract") + Count("parse") > 0 =>
          /\ Len(returned) >= 2
          /\ returned[Len(returned) - 1].op =
                (IF Count("extract") > 0 THEN "_extract_flight_data"
                                         ELSE "_parse_html_content")
          /\ returned[Len(returned)].op = "search_flights"

\* _parse_html_content has returned None for a markup without data
C1_Witness ==
    /\ NoTextualMatch
    /\ NoneDict \in Values("_parse_html_content")

\* C2: every SearchResult returned, on the structural path and on the markup
\* path, holds 20 records at most in outbound and return together
C2_Claim ==
    \A j \in 1..Len(returned) :
        IsSearchResult(returned[j].value) =>
            Len(returned[j].value.outbound) + Len(returned[j].value.return) <= 20

\* the extraction method of a SearchResult, "" when it carries none
MethodOf(v) == IF "method" \in DOMAIN v THEN v.method ELSE ""

\* C3 as stated: when no selector of the cascade matches, the SearchResult
\* returned carries the fallback method, and every SearchResult carries a method
C3_Original ==
    \A v \in Values("search_flights") :
        IsSearchResult(v) =>
            /\ MethodOf(v) \in {"structured", "requests_fallback"}
            /\ NoSelectorMatches => MethodOf(v) = "requests_fallback"

\* C3, amended: when no selector of the cascade matches, _extract_flight_data
\* still returns its own SearchResult, empty and without a method, and no
\* fallback follows; a SearchResult carries a method, requests_fallback,
\* exactly when _parse_html_content made it
C3_Amended ==
    /\ \A v \in Values("_extract_flight_data") :
          /\ MethodOf(v) = ""
          /\ NoSelectorMatches => v.outbound = <<>> /\ v.return = <<>>
    /\ \A v \in Values("_parse_html_content") :
          IsSearchResult(v) => MethodOf(v) = "requests_fallback"
    /\ \A v \in Values("search_flights") :
          IsSearchResult(v) =>
             v \in Values("_extract_flight_data") \cup Values("_parse_html_content")
    /\ Count("extract") > 0 => Count("fallback") = 0 /\ Count("parse") = 0

\* the browser path has returned for a page where no selector matches
C3_Witness ==
    /\ NoSelectorMatches
    /\ Values("_extract_flight_data") # {}
    /\ SearchOver

\* the cards that can be read, in their order
Readable(cards) == SelectSeq(cards, LAMBDA c : ~c.stale)

\* the records recs are those of the readable cards among cards, in their
\* order, each with the direction given
RecordsOf(recs, cards, direction) ==
    /\ Len(recs) = Len(Readable(cards))
    /\ \A j \in 1..Len(recs) :
          /\ recs[j].raw_text = Readable(cards)[j].text
          /\ recs[j].direction = direction

\* the card loop has ended
CardsDone == pc = "cards" /\ i >= Len(Take(flight_elements, CardLimit))

\* C4 as stated: of the n matched cards the first half is outbound and the
\* rest return (5 and 5 of 10)
C4_Original ==
    CardsDone /\ Len(flight_elements) <= CardLimit =>
        LET n == Len(flight_elements)
        IN  /\ RecordsOf(flights.outbound, SubSeq(flight_elements, 1, n \div 2), "outbound")
            /\ RecordsOf(flights.return, SubSeq(flight_elements, n \div 2 + 1, n), "return")

\* C4, amended: on the structural path the cards at positions 0 to 9 are
\* outbound and those at positions 10 to 19 are return, whatever the number of
\* matched cards (10 matched cards are all outbound); on the markup path
\* record i is outbound when i < P \div 2, P the number of price strings, and
\* return otherwise
C4_Amended ==
    /\ pc = "cards" =>
          /\ RecordsOf(flights.outbound, SubSeq(flight_elements, 1, Min(i, 10)), "outbound")
          /\ RecordsOf(flights.return, SubSeq(flight_elements, 11, i), "return")
    /\ pc = "pairs" =>
          LET half == Len(price_elements) \div 2
          IN  /\ Len(flights.outbound) = Min(i, half)
              /\ Len(flights.return) = i - Min(i, half)
              /\ \A j \in 1..Len(flights.outbound) :
                    flights.outbound[j].direction = "outbound"
              /\ \A j \in 1..Len(flights.return) :
                    flights.return[j].direction = "return"

\* ten cards were matched, all can be read, and the loop is over
C4_Witness ==
    /\ CardsDone
    /\ Len(flight_elements) = 10
    /\ Len(flights.outbound) = 10
    /\ flights.return = <<>>

\* v with its search_date left out of the comparison
WithoutDate(v) == IF IsSearchResult(v) THEN [v EXCEPT !.search_date = 0] ELSE v

\* C5 as stated: two runs of the same extraction over the same page return
\* values that are equal in every field, the timestamp included
C5_Original ==
    \A j, k \in 1..Len(returned) :
        returned[j].op = returned[k].op => returned[j].value = returned[k].value

\* C5, amended: two runs of the same extraction over the same page return
\* values that are equal in every field but search_date, which is the time of
\* each run and is later in the later run
C5_Amended ==
    \A j, k \in 1..Len(returned) :
        returned[j].op = returned[k].op /\ j < k =>
            /\ WithoutDate(returned[j].value) = WithoutDate(returned[k].value)
            /\ IsSearchResult(returned[j].value) /\ IsSearchResult(returned[k].value) =>
                  returned[j].value.search_date < returned[k].value.search_date

\* the same extraction has returned two SearchResults that hold records
C5_Witness ==
    \E j, k \in 1..Len(returned) :
        /\ j < k
        /\ returned[j].op = returned[k].op
        /\ returned[j].op # "search_flights"
        /\ IsSearchResult(returned[j].value)
        /\ IsSearchResult(returned[k].value)
        /\ returned[k].value.outbound # <<>>

\* a browser call of the running search has raised
BrowserFailed == Count("fallback") > 0

\* the log from its entry j on holds no browser acquisition
NoBrowserAfter(j) == \A k \in j..Len(log) : log[k] \notin {"get", "refresh", "extract"}

\* C6 as stated: after a failure of the browser acquisition exactly one
\* alternate acquisition is attempted, one request that is not repeated
C6_Original ==
    /\ Count("fallback") <= 1
    /\ Count("http") <= 1
    /\ SearchOver /\ BrowserFailed => Count("http") = 1

\* C6, amended: after a failure of the browser acquisition
\* _fallback_requests_method is called exactly once and no browser acquisition
\* follows; inside that call the request is repeated after a connection error
\* or a status of the forcelist, 3 times at most (4 requests), and when the
\* retries are used up the search returns None
C6_Amended ==
    /\ Count("fallback") <= 1
    /\ \A j \in 1..Len(log) : log[j] = "fallback" => NoBrowserAfter(j)
    /\ Count("http") <= 3 + 1
    /\ Count("http") > 0 => BrowserFailed
    /\ SearchOver /\ env.fail # "none" =>
          /\ Count("fallback") = 1
          /\ Count("http") = Min(env.failures, 3) + 1
          /\ env.failures > 3 => returned[Len(returned)] = Returned("search_flights", NoneDict)

\* the fetch has sent four requests and the search has given up
C6_Witness ==
    /\ SearchOver
    /\ Count("http") = 4
    /\ returned[Len(returned)] = Returned("search_flights", NoneDict)

\* the value the search that just ended has returned
LastValue == returned[Len(returned)].value

\* C7 as stated: only an acquisition failure sets off the fallback; when the
\* selectors or the text patterns find nothing, or a record is partly
\* resolved, the caller gets a SearchResult, never a missing result
C7_Original ==
    /\ BrowserFailed => env.fail # "none"
    /\ SearchOver /\ Count("extract") + Count("parse") > 0 => IsSearchResult(LastValue)

\* C7, amended: only a browser call that raises sets off the fallback; when no
\* selector matches or a record is partly resolved the caller gets a
\* SearchResult; when the text patterns of the fallback find no pair of a
\* price and two times the caller gets None
C7_Amended ==
    /\ BrowserFailed => env.fail # "none"
    /\ SearchOver /\ env.fail = "none" => Count("extract") = 1 /\ Count("parse") = 0
    /\ SearchOver /\ Count("extract") > 0 => IsSearchResult(LastValue)
    /\ SearchOver /\ Count("parse") > 0 => (IsSearchResult(LastValue) <=> ~NoTextualMatch)

\* the fallback has fetched a markup without data and the search returned None
C7_Witness ==
    /\ SearchOver
    /\ Count("parse") > 0
    /\ LastValue = NoneDict

\* the card loop has just parsed the card flight_elements[i] into flight_info
Parsed == pc = "cards" /\ i > 0 /\ flight_info # NoneDict

\* the pairing loop has just built flight_info
Paired == pc = "pairs" /\ i > 0

\* the card has no sub-element under any time or price selector
NoSubElements(card) ==
    /\ \A k \in 1..Len(card.timeEls) : card.timeEls[k].els = <<>>
    /\ \A k \in 1..Len(card.priceEls) : card.priceEls[k].els = <<>>

\* C8: the card of text "6:00 AM 9:15 AM $245 UA 123 Nonstop", without
\* sub-elements, yields exactly one record, with departure_time "6:00 AM",
\* arrival_time "9:15 AM", price_usd "$245", flight_number "UA 123" and stops
\* Nonstop
C8_SampleCard ==
    /\ pc = "cards" /\ i > 0 /\ flight_elements[i].text = SampleText
          /\ ~flight_elements[i].stale /\ NoSubElements(flight_elements[i]) =>
          /\ flight_info # NoneDict
          /\ flight_info.departure_time = <<"6", ":", "0", "0", " ", "A", "M">>
          /\ flight_info.arrival_time = <<"9", ":", "1", "5", " ", "A", "M">>
          /\ flight_info.price_usd = <<"$", "2", "4", "5">>
          /\ flight_info.flight_number = <<"U", "A", " ", "1", "2", "3">>
          /\ flight_info.stops = <<"N", "o", "n", "s", "t", "o", "p">>
    /\ CardsDone /\ flight_elements = <<SampleCard>> =>
          flights.outbound = <<flight_info>> /\ flights.return = <<>>

\* the page is that one card and the loop has parsed it
C8_Witness ==
    /\ CardsDone
    /\ flight_elements = <<SampleCard>>
    /\ Len(flights.outbound) = 1

\* no match of the pattern At starts anywhere in text
NoMatch(At(_, _), text) == \A p \in 1..Len(text) : At(text, p) = 0

\* the stripped texts of the elements that the selectors of els yield, those
\* that can be read
SubTexts(els) ==
    UNION {{Strip(els[k].els[e]) :
               e \in {x \in 1..Len(els[k].els) : els[k].els[x] # StaleText}} :
           k \in 1..Len(els)}

\* the stripped texts of the first element of the time selectors that yield two
\* elements or more, the first of which can be read
FirstTimes(card) ==
    {Strip(card.timeEls[k].els[1]) :
        k \in {j \in 1..Len(card.timeEls) :
                  /\ Len(card.timeEls[j].els) >= 2
                  /\ card.timeEls[j].els[1] # StaleText}}

InCard(v, card) ==
    \/ Contains(card.text, v)
    \/ v \in SubTexts(card.timeEls) \cup SubTexts(card.priceEls)

\* v is a string of the markup
InMarkup(v) == \E j \in 1..Len(TextNodes(html)) : TextNodes(html)[j] = v

StopsLabels ==
    {<<"N", "o", "n", "s", "t", "o", "p">>, <<"1", " ", "s", "t", "o", "p">>,
     <<"2", " ", "s", "t", "o", "p", "s">>}

\* C10 as stated: every field of every record is None or a value matched in
\* the page content
C10_Original ==
    /\ Parsed =>
          \A f \in {"airline", "departure_time", "arrival_time", "duration", "stops",
                    "price_usd", "price_miles", "cabin_class", "flight_number"} :
              flight_info[f] = None \/ InCard(flight_info[f], flight_elements[i])
    /\ Paired =>
          \A f \in {"airline", "departure_time", "arrival_time", "price_usd"} :
              flight_info[f] = None \/ InMarkup(flight_info[f])

\* C10, amended: the times, the duration and the prices of a record are None
\* or text of the page (of the card, or a whole string of the markup) and
\* cabin_class is None; but airline is always the constant "United Airlines",
\* stops is None or one of three fixed labels, flight_number is None or "UA "
\* and digits of the card, and the records of the markup path carry the
\* constant method "html_parsing"
C10_Amended ==
    /\ Parsed =>
          /\ \A f \in {"departure_time", "arrival_time", "duration", "price_usd", "price_miles"} :
                flight_info[f] = None \/ InCard(flight_info[f], flight_elements[i])
          /\ flight_info.cabin_class = None
          /\ flight_info.airline = AirlineName
          /\ flight_info.stops \in StopsLabels \cup {None}
          /\ \/ flight_info.flight_number = None
             \/ /\ SubSeq(flight_info.flight_number, 1, 3) = <<"U", "A", " ">>
                /\ Len(flight_info.flight_number) > 3
                /\ \A j \in 4..Len(flight_info.flight_number) :
                      flight_info.flight_number[j] \in Digit
                /\ Contains(flight_elements[i].text,
                            SubSeq(flight_info.flight_number, 4, Len(flight_info.flight_number)))
    /\ Paired =>
          /\ \A f \in {"departure_time", "arrival_time", "price_usd"} :
                InMarkup(flight_info[f])
          /\ flight_info.airline = AirlineName
          /\ flight_info.method = "html_parsing"

\* a record with absent fields, the constant airline and a rebuilt flight number
C10_Witness ==
    /\ Parsed
    /\ flight_info.price_usd = None
    /\ flight_info.airline = AirlineName
    /\ ~Contains(flight_elements[i].text, AirlineName)
    /\ flight_info.flight_number # None
    /\ ~Contains(flight_elements[i].text, flight_info.flight_number)

\* the optional fields of a record
OptionalFields ==
    {"departure_time", "arrival_time", "duration", "stops", "price_usd",
     "price_miles", "flight_number"}

\* the field f of the record r is absent: None, or not a key of the record
Absent(r, f) == f \notin DOMAIN r \/ r[f] = None

\* the records of the flights dict
Records(f) == {f.outbound[j] : j \in 1..Len(f.outbound)} \cup {f.return[j] : j \in 1..Len(f.return)}

\* some record of the running extraction lacks f and holds g
AbsentWithout(f, g) == \E r \in Records(flights) : Absent(r, f) /\ ~Absent(r, g)

\* the card loop has ended on the page that shows every card
EveryCardDone == CardsDone /\ flight_elements = EveryCard

\* C11 as stated: for every pair of distinct optional fields there are records
\* in which the first is absent and the second present (in both orders, the
\* pair being ordered); the page that shows every card yields them all
C11_Original ==
    EveryCardDone =>
        \A f \in OptionalFields : \A g \in OptionalFields \ {f} : AbsentWithout(f, g)

\* C11, amended: no record of either path holds an arrival_time without a
\* departure_time (both passes assign the departure time first); for every
\* other ordered pair of distinct optional fields there are records in which
\* the first is absent and the second present
C11_Amended ==
    /\ IsSearchResultDict(flights) =>
          \A r \in Records(flights) :
              ~Absent(r, "arrival_time") => ~Absent(r, "departure_time")
    /\ EveryCardDone =>
          \A f \in OptionalFields : \A g \in OptionalFields \ {f} :
              <<f, g>> # <<"departure_time", "arrival_time">> => AbsentWithout(f, g)

\* the page that shows every card is parsed, and a record holds a departure
\* time without an arrival time
C11_Witness ==
    /\ EveryCardDone
    /\ AbsentWithout("arrival_time", "departure_time")
    /\ AbsentWithout("duration", "departure_time")

\* the page acquisitions of the running search so far: loads and reloads of
\* the browser and requests of the HTTP fetch
Acquisitions == Count("get") + Count("refresh") + Count("http")

\* the extraction passes of the running search so far
Passes == Count("extract") + Count("parse")

\* C12 as stated: a search attempt is exactly one page acquisition followed by
\* exactly one extraction pass; no pass starts before the acquisition, and
\* there is no second acquisition or second pass
C12_Original ==
    /\ Acquisitions <= 1
    /\ Passes <= 1
    /\ \A j \in 1..Len(log) : log[j] \in {"extract", "parse"} => j > 1
    /\ SearchOver => Acquisitions = 1 /\ Passes = 1

\* C12, amended: the steps of an attempt are sequential and an extraction
\* pass, when there is one, is the last step and follows an acquisition; but
\* an attempt makes one to six acquisitions (the page load, a reload when the
\* page is blocked, and after a browser call that raised the requests of the
\* HTTP fetch, four at most) and at most one extraction pass: none when the
\* fetch fails or its response cannot be saved
C12_Amended ==
    /\ Passes <= 1
    /\ Count("get") <= 1 /\ Count("refresh") <= 1 /\ Count("http") <= RetryTotal + 1
    /\ \A j \in 1..Len(log) :
          /\ j = 1 <=> log[j] = "get"
          /\ log[j] \in {"extract", "parse"} => j = Len(log)
          /\ log[j] = "extract" => log[j - 1] \in {"get", "refresh"}
          /\ log[j] = "parse" => log[j - 1] = "http"
    /\ SearchOver =>
          /\ Acquisitions \in 1..(RetryTotal + 3)
          /\ env.fail = "none" => Passes = 1 /\ Acquisitions = (IF env.blocked THEN 2 ELSE 1)
          /\ Passes = 0 <=>
                /\ env.fail # "none"
                /\ \/ Status(env, Count("http")) # 200
                   \/ ~env.save

\* an attempt that took two acquisitions, the second after the first raised,
\* and one extraction pass
C12_Witness ==
    /\ SearchOver
    /\ log = <<"get", "fallback", "http", "parse">>
    /\ Acquisitions = 2 /\ Passes = 1

\* save_results has run for the search that ended last
Saved == pc = "idle" /\ searches > 0 /\ saved = searches

\* the rows of the CSV the call wrote, none when it wrote no CSV
CsvRows == IF files.call = searches /\ files.csv # NoneDict THEN files.csv.rows ELSE <<>>

\* C13 as stated: the CSV holds one row for each record of outbound followed
\* by return, and every row carries the direction of its record and the route
\* of the result
C13_Original ==
    Saved /\ IsSearchResult(LastValue) =>
        LET all == LastValue.outbound \o LastValue.return
        IN  /\ Len(CsvRows) = Len(all)
            /\ \A j \in 1..Len(CsvRows) :
                  /\ CsvRows[j].direction = all[j].direction
                  /\ "route" \in DOMAIN CsvRows[j]
                  /\ CsvRows[j].route = LastValue.route

\* C13, amended: for a result with a record or more the CSV holds one row for
\* each record of outbound followed by return, whose cells are the fields of
\* the record (empty for None), the direction among them; no row carries the
\* route, which is written to the JSON file only.  For a result without
\* records the JSON file is written and no CSV, and for None nothing is
\* written.
C13_Amended ==
    Saved =>
        /\ LastValue = NoneDict => files.call # searches
        /\ IsSearchResult(LastValue) =>
              LET all == LastValue.outbound \o LastValue.return
              IN  /\ files.call = searches
                  /\ files.json = LastValue
                  /\ files.json.route = "SFO-LAX"
                  /\ all = <<>> <=> files.csv = NoneDict
                  /\ Len(CsvRows) = Len(all)
                  /\ \A j \in 1..Len(CsvRows) :
                        /\ CsvRows[j].direction = all[j].direction
                        /\ "route" \notin DOMAIN CsvRows[j]
                        /\ DOMAIN CsvRows[j] = DOMAIN all[j]
                        /\ \A c \in DOMAIN all[j] \ LiteralColumns :
                              CsvRows[j][c] = (IF all[j][c] = None THEN <<>> ELSE all[j][c])

\* a result with outbound and return records was saved to a CSV
C13_Witness ==
    /\ Saved
    /\ IsSearchResult(LastValue)
    /\ LastValue.outbound # <<>> /\ LastValue.return # <<>>
    /\ Len(CsvRows) = Len(LastValue.outbound) + Len(LastValue.return)

\* the positions of text where the flight-number pattern matches
FlightMatches(text) == {p \in 1..Len(text) : FlightNumAt(text, p) # 0}

\* C14: when the flight-number pattern matches the text of a card, in whatever
\* spelling and letter case, flight_number is "UA", one space and the digits of
\* the leftmost match; when it does not match, flight_number is None
C14_FlightNumber ==
    Parsed =>
        LET text == flight_elements[i].text
            number == flight_info.flight_number
        IN  /\ FlightMatches(text) = {} <=> number = None
            /\ FlightMatches(text) # {} =>
                  LET p == CHOOSE q \in FlightMatches(text) :
                               \A r \in FlightMatches(text) : q <= r
                      end == FlightNumAt(text, p) - 1
                      digits == SubSeq(number, 4, Len(number))
                  IN  /\ SubSeq(number, 1, 3) = <<"U", "A", " ">>
                      /\ digits # <<>>
                      /\ \A j \in 1..Len(digits) : digits[j] \in Digit
                      /\ digits = SubSeq(text, end - Len(digits) + 1, end)
                      /\ text[end - Len(digits)] \notin Digit
                      /\ end < Len(text) => text[end + 1] \notin Digit
            /\ text = SampleText => number = <<"U", "A", " ", "1", "2", "3">>
            /\ text = RichCard.text => number = <<"U", "A", " ", "4", "5", "6">>
            /\ text = PartialCard.text => number = <<"U", "A", " ", "7", "8", "9">>
            /\ text = LowerCaseCard.text => number = <<"U", "A", " ", "3", "2", "1">>

\* the card that writes the number "ua321" was parsed
C14_Witness ==
    /\ Parsed
    /\ flight_elements[i] = LowerCaseCard
    /\ flight_info.flight_number = <<"U", "A", " ", "3", "2", "1">>

\* C15: cat_feat without test ends without error and returns train and valid
\* restricted to the columns whose number of levels and whose levels agree in
\* both; with test it returns the three frames restricted to the columns that
\* agree in all three.  (In a state where the call has ended, train and valid
\* are the restricted frames and the labels tell the columns.)
C15_Claim ==
    /\ step # "raised"
    /\ step = "returned" =>
          /\ result = IF test.none THEN <<train, valid>> ELSE <<train, valid, test.columns>>
          /\ \A c \in 1..Len(train) :
                /\ train[c].label = valid[c].label
                /\ Levels(train[c]) = Levels(valid[c])
                /\ ~test.none =>
                      /\ test.columns[c].label = train[c].label
                      /\ Levels(test.columns[c]) = Levels(train[c])

\* the selectors that match an element or more
Matching == {j \in 1..Len(FlightCardSelectors) : dom[j] # <<>>}

\* C16: the selectors are tried in their order; while the cascade runs no
\* selector before the current one has matched and no candidate is held; once
\* the card loop runs, the candidates are exactly the matches of the first
\* selector that matches (none when no selector matches), the cascade stands
\* at that selector, and neither changes any more during the pass
C16_FirstSelector ==
    /\ [](/\ pc = "cascade" =>
                /\ sel \in 1..Len(FlightCardSelectors)
                /\ flight_elements = <<>>
                /\ \A j \in 1..(sel - 1) : dom[j] = <<>>
          /\ pc \in {"generic", "cards"} =>
                IF Matching = {} THEN flight_elements = <<>>
                ELSE /\ sel \in Matching
                     /\ \A j \in Matching : sel <= j
                     /\ flight_elements = dom[sel])
    /\ [][(pc \in {"generic", "cards"}) =>
             sel' = sel /\ flight_elements' = flight_elements]_vars

\* the third selector is the first that matches, later ones match too, and the
\* candidates are the matches of the third alone
C16_Witness ==
    /\ pc = "cards"
    /\ dom[1] = <<>> /\ dom[2] = <<>>
    /\ dom[3] # <<>> /\ dom[4] # <<>>
    /\ sel = 3
    /\ flight_elements = dom[3]
    /\ i = Len(flight_elements)

\* the time selectors of the card that yield two elements or more, the first
\* two of which can be read
BothReadable(card) ==
    {k \in 1..Len(card.timeEls) :
        /\ ~card.timeEls[k].raises
        /\ Len(card.timeEls[k].els) >= 2
        /\ card.timeEls[k].els[1] # StaleText
        /\ card.timeEls[k].els[2] # StaleText}

\* the stripped texts, holding mark, of the price sub-elements that can be read
PriceTexts(card, marks) ==
    {x \in SubTexts(card.priceEls) : \E m \in marks : Contains(Lower(x), m)}

\* v is the leftmost match of the pattern At in text
Leftmost(v, At(_, _), text) ==
    \E p \in 1..Len(text) :
        /\ At(text, p) # 0
        /\ \A q \in 1..(p - 1) : At(text, q) = 0
        /\ v = SubSeq(text, p, At(text, p) - 1)

\* C17 as stated: a field found both by the pattern over the text of the card
\* and in a sub-element holds the value of the sub-element, for the times and
\* for both prices
C17_Original ==
    Parsed =>
        LET card == flight_elements[i]
        IN  /\ ~NoMatch(TimeAt, card.text) /\ BothReadable(card) # {} =>
                  flight_info.departure_time \in FirstTimes(card)
            /\ ~NoMatch(UsdAt, card.text) /\ PriceTexts(card, {<<"$">>}) # {} =>
                  flight_info.price_usd \in PriceTexts(card, {<<"$">>})
            /\ ~NoMatch(MilesAt, card.text)
                  /\ PriceTexts(card, {<<"m", "i", "l", "e", "s">>, <<"p", "o", "i", "n", "t", "s">>}) # {} =>
                  flight_info.price_miles \in
                      PriceTexts(card, {<<"m", "i", "l", "e", "s">>, <<"p", "o", "i", "n", "t", "s">>})

\* C17, amended: the times of a sub-selector replace the times of the text:
\* when a time selector yields two elements or more that can be read, the
\* record holds the stripped texts of the first two elements of the first such
\* selector.  The prices go the other way: when the pattern matches the text
\* of the card the record holds the leftmost match, whatever the price
\* sub-elements hold; a price sub-element is used only when the text has no
\* match.
C17_Amended ==
    Parsed =>
        LET card == flight_elements[i]
        IN  /\ BothReadable(card) # {} =>
                  LET k == CHOOSE x \in BothReadable(card) :
                               \A y \in BothReadable(card) : x <= y
                  IN  /\ flight_info.departure_time = Strip(card.timeEls[k].els[1])
                      /\ flight_info.arrival_time = Strip(card.timeEls[k].els[2])
            /\ ~NoMatch(UsdAt, card.text) =>
                  Leftmost(flight_info.price_usd, UsdAt, card.text)
            /\ ~NoMatch(MilesAt, card.text) =>
                  Leftmost(flight_info.price_miles, MilesAt, card.text)
            /\ NoMatch(UsdAt, card.text) /\ flight_info.price_usd # None =>
                  flight_info.price_usd \in PriceTexts(card, {<<"$">>})

\* the card with times and prices both in its text and in sub-elements was
\* parsed: the times are those of the sub-elements, the prices those of the text
C17_Witness ==
    /\ Parsed
    /\ flight_elements[i] = RichCard
    /\ flight_info.departure_time = <<"D", "e", "p", "a", "r", "t", "s", " ", "7", ":", "0", "5", " ", "P", "M">>
    /\ flight_info.arrival_time = <<"A", "r", "r", "i", "v", "e", "s", " ", "8", ":", "3", "0", " ", "P", "M">>
    /\ flight_info.price_usd = <<"$", "9", "9", ".", "5", "0">>
    /\ flight_info.price_miles = <<"1", "2", ",", "5", "0", "0", " ", "m", "i", "l", "e", "s">>

\* the records built so far, in the order they were built
Built == flights.outbound \o flights.return

\* C18 as stated: record i (from 0) holds the i-th price string and the i-th
\* and (i+1)-th time strings, all three present
C18_Original ==
    pc = "pairs" =>
        \A n \in 0..(Len(Built) - 1) :
            /\ Built[n + 1].price_usd = price_elements[n + 1]
            /\ Built[n + 1].departure_time = time_elements[n + 1]
            /\ Built[n + 1].arrival_time = time_elements[n + 2]

\* C18, amended: with P price strings and T time strings in document order,
\* record i (from 0) holds price string i and the time strings 2i and 2i + 1,
\* all three present; min(P, T \div 2) records are built, so no price string
\* and no time string is used by two records
C18_Amended ==
    pc = "pairs" =>
        /\ Len(Built) = i
        /\ i <= Min(Len(price_elements), Len(time_elements) \div 2)
        /\ price_elements = FindAllText(html, "usd")
        /\ time_elements = FindAllText(html, "time")
        /\ \A n \in 0..(Len(Built) - 1) :
              /\ Built[n + 1].price_usd = price_elements[n + 1]
              /\ Built[n + 1].departure_time = time_elements[2 * n + 1]
              /\ Built[n + 1].arrival_time = time_elements[2 * n + 2]
              /\ \A f \in {"price_usd", "departure_time", "arrival_time"} :
                    Built[n + 1][f] # None
        /\ ~ENABLED PairNext =>
              Len(Built) = Min(Len(price_elements), Len(time_elements) \div 2)

\* the second record was built from the third and the fourth time string,
\* which differ from the second and the third
C18_Witness ==
    /\ pc = "pairs"
    /\ i >= 2
    /\ Built[2].departure_time = time_elements[3]
    /\ Built[2].arrival_time = time_elements[4]
    /\ time_elements[3] # time_elements[2]

\* the raw texts of the records recs
RawTexts(recs) == [j \in 1..Len(recs) |-> recs[j].raw_text]

\* the texts of the cards among the first n candidates that can be read
ReadableTexts(n) ==
    LET cards == Readable(SubSeq(flight_elements, 1, n))
    IN  [j \in 1..Len(cards) |-> cards[j].text]

\* C19: a card whose parsing raises contributes no record and the error goes
\* no further: the loop goes on with the next card, every candidate is parsed
\* once and in its turn, and the records are those of the other processed
\* candidates in their order
C19_Swallowed ==
    /\ [](pc = "cards" =>
             /\ i <= Len(Take(flight_elements, CardLimit))
             /\ RawTexts(Built) = ReadableTexts(i))
    /\ [][(pc = "cards") =>
             /\ pc' \in {"cards", "idle"}
             /\ i' # i =>
                   /\ i' = i + 1
                   /\ pc' = "cards"
                   /\ IF flight_elements[i'].stale
                      THEN flights' = flights /\ flight_info' = NoneDict
                      ELSE /\ Len(flights'.outbound) + Len(flights'.return) = Len(Built) + 1
                           /\ flight_info'.raw_text = flight_elements[i'].text
             /\ pc' = "idle" =>
                   /\ i = Len(Take(flight_elements, CardLimit))
                   /\ returned'[Len(returned')] = Returned("search_flights", flights)]_vars

\* the third candidate could not be read; the candidates before and after it
\* were parsed and stored
C19_Witness ==
    /\ CardsDone
    /\ Len(flight_elements) >= 5
    /\ flight_elements[3].stale
    /\ Len(Built) = Len(Take(flight_elements, CardLimit)) - Cardinality({j \in 1..i : flight_elements[j].stale})
    /\ Built[2].raw_text = flight_elements[2].text
    /\ Built[3].raw_text = flight_elements[4].text

\* the steps of an extraction pass after its flights dict was made
PassSteps == {"cascade", "generic", "cards", "prices", "times", "numbers", "pairs"}

\* a is the beginning of b
IsPrefix(a, b) == Len(a) <= Len(b) /\ SubSeq(b, 1, Len(a)) = a

\* f without its records
Header(f) == [f EXCEPT !.outbound = <<>>, !.return = <<>>]

\* C20 as stated: during a pass the result changes only by records appended
\* to outbound or return; the lists before are the beginning of the lists
\* after, and nothing else of the result changes
C20_Original ==
    [][(pc \in PassSteps) /\ pc' \in PassSteps =>
          /\ IsPrefix(flights.outbound, flights'.outbound)
          /\ IsPrefix(flights.return, flights'.return)
          /\ Header(flights') = Header(flights)]_vars

\* C20, amended: during a pass the lists before a step are the beginning of
\* the lists after it, a step appends one record at most, and route,
\* search_date and method keep their values; but on the markup path the
\* result changes also otherwise: before the first record is built it gets
\* the keys raw_prices (the first 10 price strings), raw_times (the first 20
\* time strings) and raw_flight_numbers, each when its list is not empty
C20_Amended ==
    [][(pc \in PassSteps) /\ pc' \in PassSteps =>
          /\ IsPrefix(flights.outbound, flights'.outbound)
          /\ IsPrefix(flights.return, flights'.return)
          /\ Len(flights'.outbound) + Len(flights'.return)
                <= Len(flights.outbound) + Len(flights.return) + 1
          /\ \A k \in DOMAIN flights \ {"outbound", "return"} :
                k \in DOMAIN flights' /\ flights'[k] = flights[k]
          /\ pc \notin {"prices", "times", "numbers"} => DOMAIN flights' = DOMAIN flights
          /\ pc = "prices" =>
                /\ DOMAIN flights' \ DOMAIN flights =
                      IF FindAllText(html, "usd") # <<>> THEN {"raw_prices"} ELSE {}
                /\ "raw_prices" \in DOMAIN flights' =>
                      flights'.raw_prices = Take(FindAllText(html, "usd"), RawPriceLimit)
          /\ pc = "times" =>
                /\ DOMAIN flights' \ DOMAIN flights =
                      IF FindAllText(html, "time") # <<>> THEN {"raw_times"} ELSE {}
                /\ "raw_times" \in DOMAIN flights' =>
                      flights'.raw_times = Take(FindAllText(html, "time"), RawTimeLimit)
          /\ pc = "numbers" =>
                DOMAIN flights' \ DOMAIN flights =
                    IF FindAllText(html, "ua") # <<>> THEN {"raw_flight_numbers"} ELSE {}]_vars

\* a pass over the markup has added the three raw lists to the result and
\* then appended records to outbound and to return
C20_Witness ==
    /\ pc = "pairs"
    /\ {"raw_prices", "raw_times", "raw_flight_numbers"} \subseteq DOMAIN flights
    /\ flights.outbound # <<>>
    /\ flights.return # <<>>

\* every record of the list recs has the direction given
AllDirected(recs, direction) == \A j \in 1..Len(recs) : recs[j].direction = direction

\* the records of v are stored in the list of their direction
Sorted(v) ==
    IsSearchResult(v) =>
        AllDirected(v.outbound, "outbound") /\ AllDirected(v.return, "return")

\* C21: in the result of either path, while it is built and when it is
\* returned, every record of outbound has the direction outbound and every
\* record of return has the direction return
C21_Directions ==
    /\ Sorted(flights)
    /\ \A j \in 1..Len(returned) : Sorted(returned[j].value)
    /\ pc \in {"cards", "pairs"} /\ i > 0 /\ flight_info # NoneDict =>
          \/ /\ flight_info.direction = "outbound"
             /\ flights.outbound # <<>>
             /\ flights.outbound[Len(flights.outbound)] = flight_info
          \/ /\ flight_info.direction = "return"
             /\ flights.return # <<>>
             /\ flights.return[Len(flights.return)] = flight_info

\* a search has returned a result of _parse_html_content that holds outbound
\* and return records
C21_Witness ==
    /\ SearchOver
    /\ IsSearchResult(LastValue)
    /\ LastValue.outbound # <<>>
    /\ LastValue.return # <<>>
    /\ \E j \in 1..Len(returned) :
          /\ returned[j].op = "_parse_html_content"
          /\ IsSearchResult(returned[j].value)
          /\ returned[j].value.return # <<>>

\* C22: when main has ended, in whatever way, the driver that was started
\* has been quit
C22_Claim == stage = "ended" => driver # "started"

====
